---- MODULE Spec2Model ----
(***************************************************************************)
(* Model of PsScriptBuilder (src/src/builder.rs): a builder holding a      *)
(* VecDeque of argument tokens and five options, five chainable setters,   *)
(* and the terminal build() that pushes flag tokens to the front of the    *)
(* queue and yields the PsScript descriptor.                               *)
(*                                                                         *)
(* The model drives one builder at a time: new(), any sequence of setter   *)
(* calls, build(); after build() the builder is consumed and a new one may *)
(* be created.  `history` records the setter calls made on the current     *)
(* builder so that properties can speak about "the last call" or "never    *)
(* called".                                                                *)
(***************************************************************************)
EXTENDS Integers, Sequences, FiniteSets, TLC

\* Longest sequence of setter calls made on one builder.
MaxCalls == 3

(***************************************************************************)
(* enum ExecutionPolicy: the variants, by discriminant.                    *)
(***************************************************************************)
AllSigned == 0
Bypass == 1
Default == 2
RemoteSigned == 3
Restricted == 4
Undefined == 5
Unrestricted == 6

ExecutionPolicy == {AllSigned, Bypass, Default, RemoteSigned, Restricted,
                    Undefined, Unrestricted}

(***************************************************************************)
(* Option<ExecutionPolicy>: None is the empty sequence, Some(p) is <<p>>.  *)
(***************************************************************************)
None == <<>>

Some(p) == <<p>>

\* Variant: the presence test always answers yes.
is_some_always(o) == TRUE

is_some(o) == o # None

\* Option::unwrap panics on None.
unwrap_panics(o) == o = None

unwrap(o) == o[1]

(***************************************************************************)
(* VecDeque operations used by the builder.                                *)
(***************************************************************************)
\* Variant: the token is appended at the back instead of the front.
push_front_at_back(q, tok) == q \o <<tok>>

push_front(q, tok) == <<tok>> \o q

push_back(q, tok) == Append(q, tok)

(***************************************************************************)
(* impl Default for PsScriptBuilder                                        *)
(***************************************************************************)
\* Variant: the default record starts with a policy selected.
default_with_policy ==
    [args             |-> <<"-Command", "-">>,
     no_profile       |-> TRUE,
     non_interactive  |-> TRUE,
     hidden           |-> TRUE,
     print_commands   |-> FALSE,
     execution_policy |-> <<4>>]

\* Variant: the default record starts with the window shown.
default_window_shown ==
    [args             |-> <<"-Command", "-">>,
     no_profile       |-> TRUE,
     non_interactive  |-> TRUE,
     hidden           |-> FALSE,
     print_commands   |-> FALSE,
     execution_policy |-> <<>>]

default ==
    [args             |-> push_back(push_back(<<>>, "-Command"), "-"),
     no_profile       |-> TRUE,
     non_interactive  |-> TRUE,
     hidden           |-> TRUE,
     print_commands   |-> FALSE,
     execution_policy |-> None]

new == default

(***************************************************************************)
(* The setters.  Each takes the builder by value and returns it.           *)
(***************************************************************************)
\* Variant: the setter pushes its flag token at once instead of at build().
no_profile_eager(self, flag) ==
    [self EXCEPT !.no_profile = flag,
                 !.args = IF flag THEN <<"-NoProfile">> \o @ ELSE @]

no_profile(self, flag) == [self EXCEPT !.no_profile = flag]

\* Variant: the setter writes the neighbouring field.
non_interactive_wrong_field(self, flag) == [self EXCEPT !.no_profile = flag]

non_interactive(self, flag) == [self EXCEPT !.non_interactive = flag]

hidden(self, flag) == [self EXCEPT !.hidden = flag]

print_commands(self, flag) == [self EXCEPT !.print_commands = flag]

\* Variant: the first selection is kept, later ones are ignored.
execution_policy_keep_first(self, policy) ==
    IF self.execution_policy # <<>> THEN self
    ELSE [self EXCEPT !.execution_policy = <<policy>>]

execution_policy(self, policy) == [self EXCEPT !.execution_policy = Some(policy)]

(***************************************************************************)
(* The match of build(): the token pushed for each variant.                *)
(***************************************************************************)
PolicyToken(p) ==
    CASE p = AllSigned    -> "AllSigned"
      [] p = Bypass       -> "Bypass"
      [] p = Default      -> "Default"
      [] p = RemoteSigned -> "RemoteSigned"
      [] p = Restricted   -> "Restricted"
      [] p = Undefined    -> "Undefined"
      [] p = Unrestricted -> "Unrestricted"

\* Variant: the flag name is pushed before the value token.
push_policy_flag_first(q, p) ==
    push_front(push_front(q, "-ExecutionPolicy"), PolicyToken(p))

\* The two pushes of the execution-policy branch: value token, then flag name.
push_policy(q, p) == push_front(push_front(q, PolicyToken(p)), "-ExecutionPolicy")

(***************************************************************************)
(* build(): the outcome is either a panic (unwrap of None) or the PsScript *)
(* descriptor.                                                             *)
(***************************************************************************)
\* Variant: the two out-of-band fields are filled from each other's option.
PsScript_swapped(a, h, pcmd) == [args |-> a, hidden |-> pcmd, print_commands |-> h]

PsScript(a, h, pcmd) == [args |-> a, hidden |-> h, print_commands |-> pcmd]

\* Lines 74-76: the non-interactive flag goes to the front of the queue.
push_non_interactive(self, args) ==
    IF self.non_interactive THEN push_front(args, "-NonInteractive") ELSE args

\* Variant: the no-profile branch pushes the non-interactive token.
push_no_profile_wrong_token(self, args) ==
    IF self.no_profile THEN push_front(args, "-NonInteractive") ELSE args

\* Lines 78-80: the no-profile flag goes to the front of the queue.
push_no_profile(self, args) ==
    IF self.no_profile THEN push_front(args, "-NoProfile") ELSE args

build(self) ==
    LET args0 == self.args
        args1 == push_non_interactive(self, args0)
        args2 == push_no_profile(self, args1)
    IN  IF is_some(self.execution_policy)
        THEN IF unwrap_panics(self.execution_policy)
             THEN [panic |-> TRUE,
                   value |-> PsScript(<<>>, self.hidden, self.print_commands)]
             ELSE [panic |-> FALSE,
                   value |-> PsScript(push_policy(args2, unwrap(self.execution_policy)),
                                      self.hidden, self.print_commands)]
        ELSE [panic |-> FALSE,
              value |-> PsScript(args2, self.hidden, self.print_commands)]

(***************************************************************************)
(* State.                                                                  *)
(***************************************************************************)
VARIABLES
    builder,   \* the PsScriptBuilder value currently owned by the caller
    pc,        \* "building" | "built" | "panicked"
    result,    \* the PsScript returned by build(), once pc = "built"
    history    \* setter calls made on the current builder, oldest first

vars == <<builder, pc, result, history>>

\* Placeholder held in `result` while no build() has returned.
NoScript == PsScript(<<>>, FALSE, FALSE)

Call(op, flag, policy) == [op |-> op, flag |-> flag, policy |-> policy]

Init ==
    /\ builder = new
    /\ pc = "building"
    /\ result = NoScript
    /\ history = <<>>

CanCall == pc = "building" /\ Len(history) < MaxCalls

NoProfile ==
    /\ CanCall
    /\ \E flag \in BOOLEAN :
          /\ builder' = no_profile(builder, flag)
          /\ history' = Append(history, Call("no_profile", flag, None))
    /\ UNCHANGED <<pc, result>>

NonInteractive ==
    /\ CanCall
    /\ \E flag \in BOOLEAN :
          /\ builder' = non_interactive(builder, flag)
          /\ history' = Append(history, Call("non_interactive", flag, None))
    /\ UNCHANGED <<pc, result>>

Hidden ==
    /\ CanCall
    /\ \E flag \in BOOLEAN :
          /\ builder' = hidden(builder, flag)
          /\ history' = Append(history, Call("hidden", flag, None))
    /\ UNCHANGED <<pc, result>>

PrintCommands ==
    /\ CanCall
    /\ \E flag \in BOOLEAN :
          /\ builder' = print_commands(builder, flag)
          /\ history' = Append(history, Call("print_commands", flag, None))
    /\ UNCHANGED <<pc, result>>

SetExecutionPolicy ==
    /\ CanCall
    /\ \E policy \in ExecutionPolicy :
          /\ builder' = execution_policy(builder, policy)
          /\ history' = Append(history, Call("execution_policy", FALSE, Some(policy)))
    /\ UNCHANGED <<pc, result>>

Build ==
    /\ pc = "building"
    /\ LET out == build(builder)
       IN  /\ pc' = IF out.panic THEN "panicked" ELSE "built"
           /\ result' = IF out.panic THEN NoScript ELSE out.value
    /\ UNCHANGED <<builder, history>>

\* After build() consumed the builder, the caller may start over with new().
New ==
    /\ pc = "built"
    /\ builder' = new
    /\ pc' = "building"
    /\ result' = NoScript
    /\ history' = <<>>

Next ==
    \/ NoProfile
    \/ NonInteractive
    \/ Hidden
    \/ PrintCommands
    \/ SetExecutionPolicy
    \/ Build
    \/ New

Spec == Init /\ [][Next]_vars

(***************************************************************************)
(* Vocabulary of the properties.                                           *)
(***************************************************************************)
Range(q) == {q[i] : i \in 1..Len(q)}

\* Number of positions of q holding tok.
Count(q, tok) == Cardinality({i \in 1..Len(q) : q[i] = tok})

\* The token each variant is expected to map to: its own name.
TokenOf ==
    [p \in ExecutionPolicy |->
        CASE p = AllSigned    -> "AllSigned"
          [] p = Bypass       -> "Bypass"
          [] p = Default      -> "Default"
          [] p = RemoteSigned -> "RemoteSigned"
          [] p = Restricted   -> "Restricted"
          [] p = Undefined    -> "Undefined"
          [] p = Unrestricted -> "Unrestricted"]

PolicyTokens == {TokenOf[p] : p \in ExecutionPolicy}

\* The calls of `history` made to setter op, oldest first.
CallsTo(op) == SelectSeq(history, LAMBDA c : c.op = op)

\* The flag passed by the last call to setter op, or dflt when it was never called.
LastFlag(op, dflt) ==
    IF CallsTo(op) = <<>> THEN dflt ELSE CallsTo(op)[Len(CallsTo(op))].flag

\* The policy passed by the last execution_policy call (only when there is one).
LastPolicy == CallsTo("execution_policy")[Len(CallsTo("execution_policy"))].policy[1]

\* The policy passed by the execution_policy call before the last one.
PrevPolicy == CallsTo("execution_policy")[Len(CallsTo("execution_policy")) - 1].policy[1]

\* One setter call applied to a builder value.
Apply(b, c) ==
    CASE c.op = "no_profile"       -> no_profile(b, c.flag)
      [] c.op = "non_interactive"  -> non_interactive(b, c.flag)
      [] c.op = "hidden"           -> hidden(b, c.flag)
      [] c.op = "print_commands"   -> print_commands(b, c.flag)
      [] c.op = "execution_policy" -> execution_policy(b, c.policy[1])

RECURSIVE Replay(_, _)
\* The builder obtained from b by the calls of cs, in order.
Replay(b, cs) == IF cs = <<>> THEN b ELSE Replay(Apply(b, Head(cs)), Tail(cs))

\* cs with the calls at positions i and i+1 exchanged.
SwapAt(cs, i) ==
    [k \in 1..Len(cs) |-> IF k = i THEN cs[i + 1] ELSE IF k = i + 1 THEN cs[i] ELSE cs[k]]

Built == pc = "built"

\* This step is one setter call on the current builder.
SetterStep == pc = "building" /\ pc' = "building" /\ Len(history') = Len(history) + 1

(***************************************************************************)
(* C1: whatever setters were called, the argument list returned by build() *)
(* has at least two tokens and ends with "-Command", "-".                  *)
(***************************************************************************)
C1_PayloadTail ==
    Built =>
        /\ Len(result.args) >= 2
        /\ result.args[Len(result.args) - 1] = "-Command"
        /\ result.args[Len(result.args)] = "-"

C1_Witness ==
    /\ Built
    /\ ~builder.no_profile
    /\ builder.non_interactive
    /\ is_some(builder.execution_policy)
    /\ Len(result.args) = 5

(***************************************************************************)
(* C2: build() on a fresh builder (no setter called) returns exactly       *)
(* ["-NoProfile", "-NonInteractive", "-Command", "-"], hidden = true,      *)
(* print_commands = false.                                                 *)
(***************************************************************************)
C2_DefaultBuild ==
    (Built /\ history = <<>>) =>
        /\ result.args = <<"-NoProfile", "-NonInteractive", "-Command", "-">>
        /\ result.hidden = TRUE
        /\ result.print_commands = FALSE

C2_Witness == Built /\ history = <<>> /\ Len(result.args) = 4

(***************************************************************************)
(* C3: when the last execution_policy call set P, the built list starts    *)
(* with "-ExecutionPolicy" then P's own token (distinct per variant), and  *)
(* any "-NoProfile" / "-NonInteractive" comes after that pair; the Bypass  *)
(* example gives the six-token list of the specification.                  *)
(***************************************************************************)
C3_PolicyPairFirst ==
    /\ \A p, q \in ExecutionPolicy : TokenOf[p] = TokenOf[q] => p = q
    /\ (Built /\ CallsTo("execution_policy") # <<>>) =>
          /\ Len(result.args) >= 4
          /\ result.args[1] = "-ExecutionPolicy"
          /\ result.args[2] = TokenOf[LastPolicy]
          /\ \A i \in 1..Len(result.args) :
                result.args[i] \in {"-NoProfile", "-NonInteractive"} => i > 2
    /\ (Built /\ history = <<Call("execution_policy", FALSE, Some(Bypass))>>) =>
          result.args = <<"-ExecutionPolicy", "Bypass", "-NoProfile",
                          "-NonInteractive", "-Command", "-">>

C3_Witness ==
    /\ Built
    /\ CallsTo("execution_policy") # <<>>
    /\ LastPolicy = Unrestricted
    /\ ~builder.no_profile
    /\ ~builder.non_interactive
    /\ result.args[2] = "Unrestricted"

(***************************************************************************)
(* C4: hidden and print_commands never influence the argument list: any    *)
(* builder with the same no_profile, non_interactive and execution_policy  *)
(* builds the same list; the descriptor's hidden / print_commands are the  *)
(* last value passed to their setter, or the defaults true / false.        *)
(***************************************************************************)
C4_HiddenPrintOutOfBand ==
    Built =>
        /\ \A h, p \in BOOLEAN :
              build([builder EXCEPT !.hidden = h, !.print_commands = p]).value.args
                  = result.args
        /\ result.args
              = build(Replay(new, SelectSeq(history,
                    LAMBDA c : c.op \notin {"hidden", "print_commands"}))).value.args
        /\ result.hidden = LastFlag("hidden", TRUE)
        /\ result.print_commands = LastFlag("print_commands", FALSE)

C4_Witness ==
    /\ Built
    /\ CallsTo("hidden") # <<>>
    /\ CallsTo("print_commands") # <<>>
    /\ result.hidden = FALSE
    /\ result.print_commands = TRUE

(***************************************************************************)
(* C5: when execution_policy was never called, the built list holds neither*)
(* "-ExecutionPolicy" nor any of the seven policy tokens.                  *)
(***************************************************************************)
C5_NoPolicyNoToken ==
    (Built /\ CallsTo("execution_policy") = <<>>) =>
        /\ "-ExecutionPolicy" \notin Range(result.args)
        /\ Range(result.args) \cap PolicyTokens = {}

C5_Witness ==
    /\ Built
    /\ Len(history) >= 2
    /\ CallsTo("execution_policy") = <<>>
    /\ result.args = <<"-Command", "-">>

(***************************************************************************)
(* C6: a setter call repeating the previous call (same setter, same        *)
(* argument) leaves the builder, and so its build() descriptor, as the     *)
(* first call left it; no flag token ever occurs twice in a built list.    *)
(***************************************************************************)
RepeatedCall ==
    /\ SetterStep
    /\ history # <<>>
    /\ history'[Len(history')] = history[Len(history)]

FlagTokens == {"-NoProfile", "-NonInteractive", "-ExecutionPolicy", "-Command"}

C6_SetterIdempotent ==
    /\ [][RepeatedCall => (builder' = builder /\ build(builder') = build(builder))]_vars
    /\ [](Built => \A tok \in FlagTokens : Count(result.args, tok) <= 1)

C6_Witness ==
    /\ Built
    /\ Len(history) >= 2
    /\ history[Len(history)] = history[Len(history) - 1]
    /\ history[Len(history)] = Call("no_profile", TRUE, None)
    /\ Count(result.args, "-NoProfile") = 1

(***************************************************************************)
(* C7: a selected policy is never unset on the same builder; after         *)
(* execution_policy(P1) then execution_policy(P2) the built list holds one *)
(* "-ExecutionPolicy", followed by P2's token, and not P1's token when     *)
(* P1 differs from P2.                                                     *)
(***************************************************************************)
C7_PolicyOverwriteNoUnset ==
    /\ [][(pc = "building" /\ is_some(builder.execution_policy))
            => is_some(builder'.execution_policy)]_vars
    /\ [](CallsTo("execution_policy") # <<>> =>
            builder.execution_policy = Some(LastPolicy))
    /\ []((Built /\ Len(CallsTo("execution_policy")) >= 2) =>
            /\ Count(result.args, "-ExecutionPolicy") = 1
            /\ \A i \in 1..Len(result.args) :
                  result.args[i] = "-ExecutionPolicy" =>
                      /\ i < Len(result.args)
                      /\ result.args[i + 1] = TokenOf[LastPolicy]
            /\ PrevPolicy # LastPolicy => TokenOf[PrevPolicy] \notin Range(result.args))

C7_Witness ==
    /\ Built
    /\ Len(CallsTo("execution_policy")) >= 2
    /\ PrevPolicy = Bypass
    /\ LastPolicy = Restricted
    /\ result.args[2] = "Restricted"

(***************************************************************************)
(* C8: the built list is the concatenation                                 *)
(*   (["-ExecutionPolicy", token(P)] if the policy is P)                   *)
(*   ++ (["-NoProfile"] if no_profile) ++ (["-NonInteractive"] if          *)
(*   non_interactive) ++ ["-Command", "-"]                                 *)
(* of the final option record; each flag occurs once iff its option is on, *)
(* "-NoProfile" precedes "-NonInteractive", and no_profile(false) alone    *)
(* gives ["-NonInteractive", "-Command", "-"].                             *)
(***************************************************************************)
Reference(b) ==
    (IF b.execution_policy # None
        THEN <<"-ExecutionPolicy", TokenOf[b.execution_policy[1]]>> ELSE <<>>)
    \o (IF b.no_profile THEN <<"-NoProfile">> ELSE <<>>)
    \o (IF b.non_interactive THEN <<"-NonInteractive">> ELSE <<>>)
    \o <<"-Command", "-">>

C8_ReferenceConcatenation ==
    Built =>
        /\ result.args = Reference(builder)
        /\ Count(result.args, "-NoProfile") = (IF builder.no_profile THEN 1 ELSE 0)
        /\ Count(result.args, "-NonInteractive")
              = (IF builder.non_interactive THEN 1 ELSE 0)
        /\ \A i, j \in 1..Len(result.args) :
              (result.args[i] = "-NoProfile" /\ result.args[j] = "-NonInteractive")
                  => i < j
        /\ history = <<Call("no_profile", FALSE, None)>> =>
              result.args = <<"-NonInteractive", "-Command", "-">>

C8_Witness ==
    /\ Built
    /\ builder.no_profile
    /\ builder.non_interactive
    /\ is_some(builder.execution_policy)
    /\ Len(history) >= 2
    /\ Len(result.args) = 6

(***************************************************************************)
(* C9: no builder operation fails: build() never panics (its unwrap runs   *)
(* only on a set policy) and returns a descriptor, and while the builder   *)
(* is live build() and every setter can be called.                         *)
(***************************************************************************)
C9_Total ==
    /\ pc # "panicked"
    /\ ~build(builder).panic
    /\ is_some(builder.execution_policy) => ~unwrap_panics(builder.execution_policy)
    /\ Built =>
          /\ result = build(builder).value
          /\ result.hidden \in BOOLEAN
          /\ result.print_commands \in BOOLEAN
          /\ Len(result.args) >= 2
    /\ pc = "building" => ENABLED Build
    /\ CanCall =>
          /\ ENABLED NoProfile
          /\ ENABLED NonInteractive
          /\ ENABLED Hidden
          /\ ENABLED PrintCommands
          /\ ENABLED SetExecutionPolicy

C9_Witness ==
    /\ Built
    /\ is_some(builder.execution_policy)
    /\ unwrap(builder.execution_policy) = Undefined
    /\ result.args[2] = "Undefined"

(***************************************************************************)
(* C10: a setter call writes its own option and nothing else: the other    *)
(* four options and the payload queue keep their values, so the queue of a *)
(* live builder is always ["-Command", "-"]; exchanging two neighbouring   *)
(* calls to different setters does not change what build() returns.        *)
(***************************************************************************)
Options == {"no_profile", "non_interactive", "hidden", "print_commands",
            "execution_policy"}

SetterFrame ==
    LET c == history'[Len(history')]
    IN  /\ \A f \in Options \ {c.op} : builder'[f] = builder[f]
        /\ builder'.args = builder.args
        /\ IF c.op = "execution_policy"
           THEN builder'.execution_policy = c.policy
           ELSE builder'[c.op] = c.flag

C10_SetterFrame ==
    /\ [][SetterStep => SetterFrame]_vars
    /\ [](builder.args = <<"-Command", "-">>)
    /\ [](builder = Replay(new, history))
    /\ [](Built => \A i \in 1..(Len(history) - 1) :
            history[i].op # history[i + 1].op =>
                build(Replay(new, SwapAt(history, i))).value = result)

C10_Witness ==
    /\ Built
    /\ Len(history) >= 2
    /\ history[1].op = "non_interactive"
    /\ history[1].flag = FALSE
    /\ history[2].op = "execution_policy"
    /\ result.args[1] = "-ExecutionPolicy"
    /\ "-NonInteractive" \notin Range(result.args)

====
